---- MODULE Spec2Model ----
(***************************************************************************)
(* A model of gdal2mbtiles/gdal.py: the process wrapper check_output_gdal, *)
(* the VRT steps extract_color_band and warp, the pipeline driver with its *)
(* temporary files, VRT.render, Dataset.GetNativeResolution, the extents   *)
(* of a Dataset (geometric, tiled, TMS, world borders) with the            *)
(* SpatialReference they rest on, and the caches of supported_formats and  *)
(* resampling_methods.                                                     *)
(*                                                                         *)
(* Text (a captured stream) is a sequence of tokens; real numbers are      *)
(* integers counted in a fixed sub-unit; files are a map from paths to     *)
(* contents.                                                               *)
(***************************************************************************)
EXTENDS Integers, Sequences, FiniteSets, TLC

VARIABLES
    scenario,       \* which entry point of gdal.py has been called
    result,         \* what the call returned or raised
    engineCalls,    \* the commands handed to Popen, in order
    callInput,      \* the arguments and environment of the call
    p_pc,           \* pipeline(): position in the function
    fs,             \* the file system: path -> content
    fs0,            \* the file system when pipeline() was called
    functions,      \* pipeline(): the steps, by the VRT each will return
    inputfile,      \* pipeline(): the caller's input path
    outputfile,     \* pipeline(): the caller's output path
    previous,       \* pipeline(): local `previous`
    vrt,            \* pipeline(): local `vrt` (its content)
    tmpfiles,       \* pipeline(): local `tmpfiles` (the open temp files' paths)
    stepCalls,      \* every f(previous) made: <<index, argument>>
    renderCalls,    \* every vrt.render made: <<content, outputfile>>
    created,        \* every temporary file NamedTemporaryFile created
    proc,           \* the running engine child process of render
    nr_pc,          \* GetNativeResolution(): position in the function
    resolution,     \* GetNativeResolution(): the loop variable
    again,          \* GetTiledExtents() of a raster covering the box returned
    gen,            \* the generator GetWorldTmsBorders() returned
    caches,         \* supported_formats._cache and resampling_methods._cache
    answers         \* the calls for a capability and what each returned

vars == <<scenario, result, engineCalls, callInput, p_pc, fs, fs0, functions,
          inputfile, outputfile, previous, vrt, tmpfiles, stepCalls,
          renderCalls, created, proc, nr_pc, resolution, again, gen, caches,
          answers>>

pipelineVars == <<p_pc, fs, fs0, functions, inputfile, outputfile, previous,
                  vrt, tmpfiles, stepCalls, renderCalls, created, proc>>

resolutionVars == <<nr_pc, resolution>>

geometryVars == <<again, gen>>

cacheVars == <<caches, answers>>

-----------------------------------------------------------------------------
(* Bounds of the model *)

MaxStreamLen == 3       \* tokens in a captured error stream
MaxBands == 3           \* bands of a raster
MaxSteps == 3           \* functions handed to pipeline()
MaxZoom == 6            \* zoom levels GetNativeResolution may scan
MaxCalls == 3           \* calls for the engine's capabilities in one process

-----------------------------------------------------------------------------
(* Text *)

NL == "\n"
\* The text extract_color_band compares e.error with, as one token.
STDOUT_QUIRK == "ERROR 4: `/dev/stdout' not recognised as a supported file format."
StreamTokens == {NL, "boom", STDOUT_QUIRK}

RECURSIVE SeqsUpTo(_, _)
SeqsUpTo(S, n) ==
    IF n = 0 THEN {<<>>}
    ELSE LET shorter == SeqsUpTo(S, n - 1)
         IN  shorter \cup {Append(s, t) : s \in shorter, t \in S}

Streams == SeqsUpTo(StreamTokens, MaxStreamLen)
Outputs == {<<>>, <<"<VRTDataset/>">>}
ReturnCodes == {-9, 0, 1, 2}

KeepNewlines(s) == s

\* str.rstrip('\n'): drops every trailing newline
RECURSIVE RStripNewlines(_)
RStripNewlines(s) ==
    IF s = <<>> THEN s
    ELSE IF s[Len(s)] = NL THEN RStripNewlines(SubSeq(s, 1, Len(s) - 1))
    ELSE s

-----------------------------------------------------------------------------
(* check_output_gdal *)

NoResult == [kind |-> "none", returncode |-> 0, cmd |-> <<>>,
             output |-> <<>>, error |-> <<>>]

Returned(value) == [NoResult EXCEPT !.kind = "return", !.output = value]

Raised(kind) == [NoResult EXCEPT !.kind = kind]

CalledGdalError(returncode, cmd, output, error) ==
    [kind |-> "CalledGdalError", returncode |-> returncode, cmd |-> cmd,
     output |-> output, error |-> error]

\* The command reaches Popen as popenargs[0] or as the keyword args.
NoKwargs == [has_args |-> FALSE, args |-> <<>>]
Kwargs(cmd) == [has_args |-> TRUE, args |-> cmd]

\* p is the finished child: [returncode, stdout, stderr]
check_output_gdal(popenargs, kwargs, p) ==
    IF p.returncode # 0
    THEN LET cmd == IF kwargs.has_args THEN kwargs.args ELSE popenargs[1]
         IN  CalledGdalError(p.returncode, cmd, p.stdout,
                             RStripNewlines(p.stderr))
    ELSE Returned(p.stdout)

Children == [returncode : ReturnCodes, stdout : Outputs, stderr : Streams]

NoInput == [op |-> "none"]

\* A command is the list handed to Popen; an argument is a text, kept as
\* the sequence of its space-separated words.
Arg(word) == <<word>>
Args(words) == [i \in 1..Len(words) |-> Arg(words[i])]

CallCheckOutputGdal ==
    /\ scenario = "none"
    /\ \E p \in Children, cmd \in {Args(<<"gdalwarp">>), Args(<<"gdal_translate", "-q">>)} :
        /\ scenario' = "check_output_gdal"
        /\ engineCalls' = Append(engineCalls, cmd)
        /\ \/ /\ callInput' = [op |-> "check_output_gdal", cmd |-> cmd,
                                child |-> p, keyword |-> FALSE]
              /\ result' = check_output_gdal(<<cmd>>, NoKwargs, p)
           \/ /\ callInput' = [op |-> "check_output_gdal", cmd |-> cmd,
                                child |-> p, keyword |-> TRUE]
              /\ result' = check_output_gdal(<<>>, Kwargs(cmd), p)
    /\ UNCHANGED <<pipelineVars, resolutionVars, geometryVars,
                   cacheVars>>

-----------------------------------------------------------------------------
(* Dataset(inputfile), as far as the steps read it *)

\* open: "ok", or the error Dataset.__init__ raises (IOError from open(),
\* GdalError from gdal.Open); nodata: GetNoDataValue() of band i
NoData(declared, value) == [declared |-> declared, value |-> value]
NoDataValues == {NoData(FALSE, 0), NoData(TRUE, 0), NoData(TRUE, 255)}

RECURSIVE SeqsOfLen(_, _)
SeqsOfLen(S, n) ==
    IF n = 0 THEN {<<>>}
    ELSE {Append(s, t) : s \in SeqsOfLen(S, n - 1), t \in S}

OpenOutcomes == {"ok", "IOError", "GdalError"}

\* RasterCount is Len(nodata)
Datasets ==
    UNION {[open : OpenOutcomes, nodata : SeqsOfLen(NoDataValues, n)] :
           n \in 0..MaxBands}

RasterCount(dataset) == Len(dataset.nodata)

VRT(content) == [NoResult EXCEPT !.kind = "VRT", !.output = content]

\* what a function did: the value returned or the error raised, and the
\* commands it ran
Outcome(r, calls) == [result |-> r, calls |-> calls]

-----------------------------------------------------------------------------
(* extract_color_band *)

ValidBandOffByOne(band, dataset) == 0 <= band /\ band <= RasterCount(dataset)

ValidBand(band, dataset) == 1 <= band /\ band <= RasterCount(dataset)

ExtractCommand(file, band) ==
    Args(<<"gdal_translate", "-q", "-of", "VRT", "-b", ToString(band), file,
           "/dev/stdout">>)

IsAnyError4(e) == e.error # <<>> /\ e.error[1] = STDOUT_QUIRK

IsStdoutQuirk(e) == e.error = <<STDOUT_QUIRK>>

extract_color_band(file, dataset, band, p) ==
    IF dataset.open # "ok" THEN Outcome(Raised(dataset.open), <<>>)
    ELSE IF ~ValidBand(band, dataset) THEN Outcome(Raised("ValueError"), <<>>)
    ELSE LET command == ExtractCommand(file, band)
             r == check_output_gdal(<<command>>, NoKwargs, p)
         IN  IF r.kind = "return" THEN Outcome(VRT(r.output), <<command>>)
             ELSE IF IsStdoutQuirk(r) THEN Outcome(VRT(r.output), <<command>>)
             ELSE Outcome(r, <<command>>)

Bands == -1..(MaxBands + 1)

\* extract_color_band reads RasterCount only
PlainDatasets == {d \in Datasets : \A i \in 1..Len(d.nodata) : ~d.nodata[i].declared}

CallExtractColorBand ==
    /\ scenario = "none"
    /\ \E dataset \in PlainDatasets, band \in Bands, p \in Children :
        LET o == extract_color_band("in.tif", dataset, band, p)
        IN  /\ scenario' = "extract_color_band"
            /\ callInput' = [op |-> "extract_color_band", dataset |-> dataset,
                             band |-> band, child |-> p]
            /\ engineCalls' = engineCalls \o o.calls
            /\ result' = o.result
    /\ UNCHANGED <<pipelineVars, resolutionVars, geometryVars,
                   cacheVars>>

-----------------------------------------------------------------------------
(* warp: the resampling method, the no-data values, the engine call *)

\* RESAMPLING_METHODS, keyed by the name of the gdalconst member
RESAMPLING_METHODS ==
    [GRA_NearestNeighbour |-> "near", GRA_Bilinear |-> "bilinear",
     GRA_Cubic |-> "cubic", GRA_CubicSpline |-> "cubicspline",
     GRA_Lanczos |-> "lanczos"]

MethodValues == {RESAMPLING_METHODS[k] : k \in DOMAIN RESAMPLING_METHODS}

\* a resampling argument: None, a str (isinstance(resampling, basestring)),
\* or another object, here a member of gdalconst named by `val`
None == [type |-> "None", val |-> ""]
Str(name) == [type |-> "str", val |-> name]
Enum(member) == [type |-> "enum", val |-> member]

Resamplings ==
    {None}
    \cup {Enum(k) : k \in DOMAIN RESAMPLING_METHODS \cup {"GRA_Average", "GRA_Mode"}}
    \cup {Str(n) : n \in MethodValues \cup {"average", "mode", "bogus", ""}}

\* what `gdalwarp --help` lists under "Available resampling methods:"
AdvertisedSets == {MethodValues, MethodValues \cup {"average", "mode"}}

\* the value of `resampling` after validation, or the error raised
\* [ok, given, name]: ok is FALSE where UnknownResamplingMethodError is
\* raised; given says that a -r argument is to be emitted, with `name`
Rejected == [ok |-> FALSE, given |-> FALSE, name |-> ""]
NotGiven == [ok |-> TRUE, given |-> FALSE, name |-> ""]
Method(name) == [ok |-> TRUE, given |-> TRUE, name |-> name]

\* `advertised` is not read: warp never calls resampling_methods()
ValidateResampling(resampling, advertised) ==
    IF resampling.type = "None" THEN NotGiven
    ELSE IF resampling.type # "str"
    THEN IF resampling.val \in DOMAIN RESAMPLING_METHODS
         THEN Method(RESAMPLING_METHODS[resampling.val])
         ELSE Rejected
    ELSE IF resampling.val \notin MethodValues
    THEN Rejected
    ELSE Method(resampling.val)

\* bool() of a GetNoDataValue() result: None and a NumPy zero are false
Truthy(v) == v.declared /\ v.value # 0

\* any(nodata_values)
AnyNoData(nodata_values) ==
    \E i \in 1..Len(nodata_values) : Truthy(nodata_values[i])

\* str(v).lower()
FormatNoData(v) == IF v.declared THEN ToString(v.value) ELSE "none"

\* The arguments of the gdalwarp call that the resampling method and the
\* no-data values decide; -te and -ts come from GetTiledExtents.
WarpCommand(file, srs, r, nodata_values) ==
    Args(<<"gdalwarp", "-q", "-of", "VRT", "-t_srs", srs>>)
    \o (IF r.given THEN Args(<<"-r", r.name>>) ELSE <<>>)
    \o (IF AnyNoData(nodata_values)
        THEN <<Arg("-dstnodata"),
               \* ' '.join(nodata_values)
               [i \in 1..Len(nodata_values) |-> FormatNoData(nodata_values[i])]>>
        ELSE <<>>)
    \o Args(<<file, "/dev/stdout">>)

warp(file, dataset, resampling, advertised, p) ==
    IF dataset.open # "ok" THEN Outcome(Raised(dataset.open), <<>>)
    ELSE LET r == ValidateResampling(resampling, advertised)
         IN  IF ~r.ok THEN Outcome(Raised("UnknownResamplingMethodError"), <<>>)
             ELSE LET warp_cmd == WarpCommand(file, "EPSG:3857", r, dataset.nodata)
                      out == check_output_gdal(<<warp_cmd>>, NoKwargs, p)
                  IN  IF out.kind = "return"
                      THEN Outcome(VRT(out.output), <<warp_cmd>>)
                      ELSE Outcome(out, <<warp_cmd>>)

\* the children of the calls that do not look at the error stream
FewStreams == {<<>>, <<"boom", NL>>, <<STDOUT_QUIRK>>, <<STDOUT_QUIRK, NL>>}
FewChildren == [returncode : {0, 1, -9}, stdout : Outputs, stderr : FewStreams]

CallWarp ==
    /\ scenario = "none"
    /\ \E dataset \in Datasets, resampling \in Resamplings,
          advertised \in AdvertisedSets, p \in FewChildren :
        LET o == warp("in.tif", dataset, resampling, advertised, p)
        IN  /\ dataset.open # "IOError"
            /\ scenario' = "warp"
            /\ callInput' = [op |-> "warp", dataset |-> dataset,
                             resampling |-> resampling,
                             advertised |-> advertised, child |-> p]
            /\ engineCalls' = engineCalls \o o.calls
            /\ result' = o.result
    /\ UNCHANGED <<pipelineVars, resolutionVars, geometryVars,
                   cacheVars>>

-----------------------------------------------------------------------------
(* Files *)

\* contents: <<kind, what it was made from>>
Absent == <<"absent", "">>
Empty == <<"empty", "">>                    \* a file just created
Raster == <<"raster", "">>                  \* the caller's input
Old == <<"old", "">>                        \* an earlier output
VrtFile(content) == <<"vrt", content>>      \* VRT.content written out
Partial(content) == <<"partial", content>>  \* a GeoTIFF the engine has begun
GeoTiff(content) == <<"tif", content>>      \* a GeoTIFF the engine finished

VrtContents == {"vrtA", "vrtB"}
OutputPaths == {"out/a.tif", "out/b.tif"}

\* NamedTemporaryFile names: prefix + a part that makes the name new + suffix
StepTempName(i) == "gdal" \o ToString(i) \o ".vrt"
RenderInputName == "tmp.vrt"
RenderTempName == "out/gdalrender.tif"

Paths ==
    {"in.tif", RenderInputName, RenderTempName} \cup OutputPaths
    \cup {StepTempName(i) : i \in 0..MaxSteps}

Write(files, path, content) == [files EXCEPT ![path] = content]

\* NamedTemporaryFile.close() with delete=True, and os.remove
Remove(files, path) == [files EXCEPT ![path] = Absent]

\* os.rename(src, dst)
Rename(files, src, dst) == [files EXCEPT ![dst] = files[src], ![src] = Absent]

-----------------------------------------------------------------------------
(* pipeline *)

CloseAllButLast(files, tmps) ==
    [path \in DOMAIN files |->
        IF \E k \in 1..(Len(tmps) - 1) : tmps[k] = path THEN Absent
        ELSE files[path]]

\* finally: for f in tmpfiles: f.close()
CloseTempFiles(files, tmps) ==
    [path \in DOMAIN files |->
        IF \E k \in 1..Len(tmps) : tmps[k] = path THEN Absent ELSE files[path]]

NeverEmpty(fns) == FALSE

\* not functions
NoFunctions(fns) == Len(fns) = 0

KeepPrevious(current, prev) == prev

\* previous = current.name
NextPrevious(current, prev) == current

\* the compress argument, after str(compress)
Compressions == {"None", "lzw", "jpeg"}

PipelineCall ==
    /\ scenario = "none"
    /\ \E fns \in SeqsUpTo(VrtContents, MaxSteps), out \in OutputPaths,
          before \in {Absent, Old} :
        /\ scenario' = "pipeline"
        /\ \E compress \in Compressions :
              callInput' = [op |-> "pipeline", compress |-> compress]
        /\ functions' = fns
        /\ inputfile' = "in.tif"
        /\ outputfile' = out
        /\ fs' = [path \in Paths |->
                    IF path = "in.tif" THEN Raster
                    ELSE IF path = out THEN before ELSE Absent]
        /\ fs0' = fs'
        /\ previous' = "in.tif"
        /\ IF NoFunctions(fns)
           THEN /\ result' = Raised("ValueError")
                /\ p_pc' = "done"
           ELSE IF Len(fns) = 0
           \* the loop body never runs and `vrt` is unbound at vrt.render
           THEN /\ result' = Raised("UnboundLocalError")
                /\ p_pc' = "done"
           ELSE /\ result' = result
                /\ p_pc' = "loop"
    /\ UNCHANGED <<engineCalls, vrt, tmpfiles, stepCalls, renderCalls, created,
                   proc, resolutionVars, geometryVars,
                   cacheVars>>

\* one turn of the loop: vrt = f(previous), then the temp file; f raising
\* leaves through the finally clause
PipelineStep ==
    /\ p_pc = "loop"
    /\ LET i == Len(stepCalls)
           call(ok) == [index |-> i, arg |-> previous,
                        content |-> fs[previous], ok |-> ok]
       IN  \/ /\ stepCalls' = Append(stepCalls, call(FALSE))
              /\ result' = Raised("StepError")
              /\ fs' = CloseTempFiles(fs, tmpfiles)
              /\ p_pc' = "done"
              /\ UNCHANGED <<vrt, tmpfiles, previous, created>>
           \/ LET current == StepTempName(i)
              IN  /\ stepCalls' = Append(stepCalls, call(TRUE))
                  /\ vrt' = functions[i + 1]
                  /\ fs' = Write(fs, current, VrtFile(functions[i + 1]))
                  /\ created' = created \cup {[name |-> current, of |-> "vrt"]}
                  /\ tmpfiles' = Append(tmpfiles, current)
                  /\ previous' = NextPrevious(current, previous)
                  /\ p_pc' = IF i + 1 = Len(functions) THEN "render" ELSE "loop"
                  /\ UNCHANGED result
    /\ UNCHANGED <<scenario, engineCalls, callInput, fs0, functions, inputfile,
                   outputfile, renderCalls, proc, resolutionVars, geometryVars,
                   cacheVars>>

-----------------------------------------------------------------------------
(* VRT.render *)

\* str(compress).upper()
Upper(compress) ==
    CASE compress = "None" -> "NONE"
      [] compress = "lzw" -> "LZW"
      [] compress = "jpeg" -> "JPEG"

RenderCommand(compress, source, target) ==
    Args(<<"gdalwarp", "-q", "-of", "GTiff", "-multi", "-overwrite",
           "-co", "BIGTIFF=IF_NEEDED", "-wo", "NUM_THREADS=ALL_CPUS",
           "-wm", "512", "--config", "GDAL_CACHEMAX", "512">>)
    \o (IF Upper(compress) # "NONE"
        THEN Args(<<"-co", "COMPRESS=" \o Upper(compress)>>)
             \o (IF Upper(compress) \in {"LZW", "DEFLATE"}
                 THEN Args(<<"-co", "PREDICTOR=2">>) ELSE <<>>)
        ELSE <<>>)
    \o Args(<<source, target>>)

NoProc == [state |-> "none"]

\* render up to the start of the engine: the output's temp file beside
\* outputfile (delete=False), the VRT's temp file, the command
RenderStart ==
    /\ p_pc = "render"
    /\ LET warp_cmd == RenderCommand(callInput.compress, RenderInputName,
                                     RenderTempName)
       IN  /\ renderCalls' = Append(renderCalls,
                                [content |-> vrt, outputfile |-> outputfile])
           /\ fs' = Write(Write(fs, RenderTempName, Empty),
                          RenderInputName, VrtFile(vrt))
           /\ created' = created \cup {[name |-> RenderTempName, of |-> "render"],
                                       [name |-> RenderInputName, of |-> "vrt"]}
           /\ engineCalls' = Append(engineCalls, warp_cmd)
           /\ proc' = [state |-> "running", cmd |-> warp_cmd,
                       source |-> RenderInputName, target |-> RenderTempName]
           /\ p_pc' = "engine"
    /\ UNCHANGED <<scenario, result, callInput, fs0, functions, inputfile,
                   outputfile, previous, vrt, tmpfiles, stepCalls,
                   resolutionVars, geometryVars,
                   cacheVars>>

\* the engine, while check_output_gdal waits in p.communicate(), writes
\* its target
EngineWrite ==
    /\ p_pc = "engine"
    /\ fs[proc.target] = Empty
    /\ fs' = Write(fs, proc.target, Partial(fs[proc.source][2]))
    /\ UNCHANGED <<scenario, result, engineCalls, callInput, p_pc, fs0,
                   functions, inputfile, outputfile, previous, vrt, tmpfiles,
                   stepCalls, renderCalls, created, proc, resolutionVars, geometryVars,
                   cacheVars>>

RenameAlways(r) == TRUE

\* os.rename is reached only when check_output_gdal did not raise
RenameReached(r) == r.kind = "return"

\* os.remove(tmpfile.name), ENOENT passed over
RemoveIfExists(files, path) ==
    IF files[path] = Absent THEN files ELSE Remove(files, path)

\* the rest of render once the engine has exited, then pipeline's finally
EngineExit ==
    /\ p_pc = "engine"
    /\ \E p \in FewChildren :
        LET r == check_output_gdal(<<proc.cmd>>, NoKwargs, p)
            \* exit code 0: the engine has written all of its target
            written == IF p.returncode = 0
                       THEN Write(fs, proc.target,
                                  GeoTiff(fs[proc.source][2]))
                       ELSE fs
            renamed == IF RenameReached(r)
                       THEN Rename(written, proc.target, outputfile)
                       ELSE written
            \* leaving `with self.get_tempfile(...) as inputfile`
            closed == Remove(renamed, proc.source)
            removed == RemoveIfExists(closed, proc.target)
        IN  /\ proc' = [proc EXCEPT !.state = "exited"] @@ [child |-> p]
            /\ fs' = CloseTempFiles(removed, tmpfiles)
            /\ result' = IF r.kind = "return" THEN Returned(<<>>) ELSE r
            /\ p_pc' = "done"
    /\ UNCHANGED <<scenario, engineCalls, callInput, fs0, functions, inputfile,
                   outputfile, previous, vrt, tmpfiles, stepCalls, renderCalls,
                   created, resolutionVars, geometryVars,
                   cacheVars>>

-----------------------------------------------------------------------------
(* SpatialReference, as far as GetNativeResolution reads it *)

\* Lengths are whole numbers of a sub-unit small enough that every
\* division below is exact.
TILE_SIDE == 256

XY(x, y) == [x |-> x, y |-> y]

RECURSIVE Pow2(_)
Pow2(n) == IF n = 0 THEN 1 ELSE 2 * Pow2(n - 1)

\* [projected, major, minor]: IsProjected(), GetMajorCircumference(),
\* GetMinorCircumference()
SpatialRef(projected, major, minor) ==
    [projected |-> projected, major |-> major, minor |-> minor]

World == Pow2(30)
Flattening == Pow2(20)

SpatialRefs ==
    {SpatialRef(TRUE, World, World),                \* a sphere, projected
     SpatialRef(TRUE, World, World - Flattening),   \* an ellipsoid, projected
     SpatialRef(FALSE, World, World)}               \* geographic

GetTileDimensions(sr, res) ==
    LET width == sr.major \div Pow2(res)
        height == sr.minor \div Pow2(res)
    IN  IF ~sr.projected THEN XY(width \div 2, height \div 2)
        ELSE XY(width, height)

GetPixelDimensions(sr, res) ==
    LET tile == GetTileDimensions(sr, res)
    IN  XY(tile.x \div TILE_SIDE, tile.y \div TILE_SIDE)

Abs(a) == IF a < 0 THEN -a ELSE a
Min(a, b) == IF a <= b THEN a ELSE b
Max(a, b) == IF a >= b THEN a ELSE b

-----------------------------------------------------------------------------
(* Dataset.GetNativeResolution *)

ERROR_DENOMINATOR == 1000000     \* 1.0e-06, as 1 / ERROR_DENOMINATOR

\* a CoordinateTransformation: TransformPoint(x, 0)[0] is x * num / den
NoTransform == [given |-> FALSE, num |-> 1, den |-> 1, dst_ref |-> <<>>]
Transform(num, den, dst_ref) ==
    [given |-> TRUE, num |-> num, den |-> den, dst_ref |-> dst_ref]

NoMaximum == [given |-> FALSE, value |-> 0]
Maximum(n) == [given |-> TRUE, value |-> n]

\* min(abs(width), abs(height)) of GetGeoTransform()
SrcPixelSize(raster) == Min(Abs(raster.width), Abs(raster.height))

DstPixelSize(raster, transform) ==
    IF ~transform.given THEN SrcPixelSize(raster)
    ELSE Abs((SrcPixelSize(raster) * transform.num) \div transform.den)

DstRef(raster, transform) ==
    IF ~transform.given THEN raster.ref ELSE transform.dst_ref

NoLarger(res_pixel_size, dst_pixel_size) == res_pixel_size <= dst_pixel_size

\* (res_pixel_size - dst_pixel_size) <= error, error being
\* dst_pixel_size * 1.0e-06: a whole difference is at most
\* dst_pixel_size / 1000000 exactly when it is at most the quotient
\* rounded down
WithinError(res_pixel_size, dst_pixel_size) ==
    res_pixel_size - dst_pixel_size <= dst_pixel_size \div ERROR_DENOMINATOR

ResPixelSize(dst_ref, res) ==
    LET pixel == GetPixelDimensions(dst_ref, res)
    IN  Max(pixel.x, pixel.y)

ZoomZeroPixel == World \div TILE_SIDE

PixelSizes ==
    {0} \cup {ZoomZeroPixel \div Pow2(j) + d : j \in 0..4, d \in {-2, -1, 0, 1}}

\* the pixel is square, twice as high as wide, or half as high
Rasters ==
    {[width |-> w, height |-> -((w * k[1]) \div k[2]), ref |-> sr] :
        w \in PixelSizes, k \in {<<1, 1>>, <<2, 1>>, <<1, 2>>},
        sr \in SpatialRefs}

Transforms ==
    {NoTransform}
    \cup {Transform(s[1], s[2], sr) :
            s \in {<<1, 1>>, <<2, 1>>, <<1, 2>>, <<0, 1>>}, sr \in SpatialRefs}

Maximums == {NoMaximum, Maximum(0), Maximum(3)}

GetNativeResolutionCall ==
    /\ scenario = "none"
    /\ \E raster \in Rasters, transform \in Transforms, maximum \in Maximums :
        /\ scenario' = "GetNativeResolution"
        /\ callInput' = [op |-> "GetNativeResolution", raster |-> raster,
                         transform |-> transform, maximum |-> maximum]
    /\ nr_pc' = "scan"
    /\ resolution' = 0
    /\ UNCHANGED <<result, engineCalls, pipelineVars, geometryVars, cacheVars>>

\* one turn of `for resolution in count()`
GetNativeResolutionStep ==
    /\ nr_pc = "scan"
    /\ LET maximum == callInput.maximum
           dst_ref == DstRef(callInput.raster, callInput.transform)
           dst_pixel_size == DstPixelSize(callInput.raster, callInput.transform)
       IN  IF maximum.given /\ resolution >= maximum.value
           THEN nr_pc' = "returned" /\ UNCHANGED resolution
           ELSE IF WithinError(ResPixelSize(dst_ref, resolution), dst_pixel_size)
           THEN nr_pc' = "returned" /\ UNCHANGED resolution
           ELSE /\ resolution < MaxZoom
                /\ resolution' = resolution + 1
                /\ UNCHANGED nr_pc
    /\ UNCHANGED <<scenario, result, engineCalls, callInput, pipelineVars,
                   geometryVars, cacheVars>>

-----------------------------------------------------------------------------
(* Dataset geometry: extents, tiled extents, TMS extents and borders *)

\* Geometry is followed on a small globe: Unit sub-units to the map unit and
\* a zoom-0 tile of TILE_SIDE map units, so that a pixel of one map unit is
\* the pixel of zoom 0.
Unit == Pow2(12)
Globe == TILE_SIDE * Unit

GlobeRefs ==
    {SpatialRef(TRUE, Globe, Globe),                        \* sphere
     SpatialRef(TRUE, Globe, Globe - Globe \div 16),        \* ellipsoid
     SpatialRef(FALSE, Globe, Globe)}                       \* geographic

Extents(lower_left, upper_right) ==
    [lower_left |-> lower_left, upper_right |-> upper_right]

NoZoom == [given |-> FALSE, value |-> 0]      \* resolution=None
Zoom(n) == [given |-> TRUE, value |-> n]

\* the world of a projection, centred on the origin; a geographic one is
\* half as high as wide
GetWorldExtents(sr) ==
    LET major == sr.major \div 2
        minor == IF ~sr.projected THEN (sr.minor \div 2) \div 2
                 ELSE sr.minor \div 2
    IN  Extents(XY(-major, -minor), XY(major, minor))

\* the point as it is
NoOffset(sr, x, y, reverse) == XY(x, y)

OffsetPoint(sr, x, y, reverse) ==
    LET major_offset == sr.major \div 2
        minor_offset == IF ~sr.projected THEN sr.minor \div 4
                        ELSE sr.minor \div 2
    IN  IF reverse THEN XY(x - major_offset, y - minor_offset)
        ELSE XY(x + major_offset, y + minor_offset)

\* int(round(a / b)) for b > 0: halves round away from zero
RoundDiv(a, b) ==
    IF a >= 0 THEN (2 * a + b) \div (2 * b) ELSE -((b - 2 * a) \div (2 * b))

\* int(a / b) for b > 0: the fraction is dropped, towards zero
IntDiv(a, b) == IF a >= 0 THEN a \div b ELSE -((-a) \div b)

GetTilesCount(sr, extents, res) ==
    LET width == extents.upper_right.x - extents.lower_left.x
        height == extents.upper_right.y - extents.lower_left.y
        tile == GetTileDimensions(sr, res)
    IN  XY(RoundDiv(width, tile.x), RoundDiv(height, tile.y))

\* TransformPoint(x, y)[0:2]: both axes scaled by num / den
TransformPoint(transform, x, y) ==
    XY((x * transform.num) \div transform.den,
       (y * transform.num) \div transform.den)

\* a Dataset: its geotransform (x0, width, rot_x, y0, rot_y, height), its
\* size in pixels and its spatial reference
Dataset(x0, width, rot_x, y0, rot_y, height, x_size, y_size, ref) ==
    [x0 |-> x0, width |-> width, rot_x |-> rot_x, y0 |-> y0, rot_y |-> rot_y,
     height |-> height, RasterXSize |-> x_size, RasterYSize |-> y_size,
     ref |-> ref]

PixelCoordinates(raster, x, y, transform) ==
    LET coords == XY(raster.x0 + raster.width * x + raster.rot_x * y,
                     raster.y0 + raster.rot_y * x + raster.height * y)
    IN  IF ~transform.given THEN coords
        ELSE TransformPoint(transform, coords.x, coords.y)

MinOf(S) == CHOOSE m \in S : \A n \in S : m <= n
MaxOf(S) == CHOOSE m \in S : \A n \in S : m >= n

GetExtents(raster, transform) ==
    LET x_size == raster.RasterXSize
        y_size == raster.RasterYSize
        corners == {PixelCoordinates(raster, c[1], c[2], transform) :
                      c \in {<<0, 0>>, <<x_size, 0>>, <<0, y_size>>,
                             <<x_size, y_size>>}}
        x_values == {c.x : c \in corners}
        y_values == {c.y : c \in corners}
    IN  Extents(XY(MinOf(x_values), MinOf(y_values)),
                XY(MaxOf(x_values), MaxOf(y_values)))

\* GetNativeResolution(transform=transform) as a function: the zoom the scan
\* returns, or MaxZoom + 1 when it has not returned within MaxZoom
RECURSIVE Scan(_, _, _)
Scan(dst_ref, dst_pixel_size, res) ==
    IF WithinError(ResPixelSize(dst_ref, res), dst_pixel_size) THEN res
    ELSE IF res < MaxZoom THEN Scan(dst_ref, dst_pixel_size, res + 1)
    ELSE MaxZoom + 1

GetNativeResolution(raster, transform) ==
    Scan(DstRef(raster, transform), DstPixelSize(raster, transform), 0)

\* the next grid line strictly above
SnapUpNextTile(v, tile) == v + (tile - (v % tile))

\* the previous grid line strictly below
SnapDownPreviousTile(v, tile) == v - (tile - ((-v) % tile))

\* left -= left % tile_width; Python's % has the sign of the divisor
SnapDown(v, tile) == v - (v % tile)

\* right += -right % tile_width
SnapUp(v, tile) == v + ((-v) % tile)

GetTiledExtents(raster, transform, zoom) ==
    LET res == IF zoom.given THEN zoom.value
               ELSE GetNativeResolution(raster, transform)
        spatial_ref == DstRef(raster, transform)
        tile == GetTileDimensions(spatial_ref, res)
        extents == GetExtents(raster, transform)
        lower == OffsetPoint(spatial_ref, extents.lower_left.x,
                             extents.lower_left.y, FALSE)
        upper == OffsetPoint(spatial_ref, extents.upper_right.x,
                             extents.upper_right.y, FALSE)
        left == SnapDown(lower.x, tile.x)
        right == SnapUp(upper.x, tile.x)
        bottom == SnapDown(lower.y, tile.y)
        top == SnapUp(upper.y, tile.y)
        lower_left == OffsetPoint(spatial_ref, left, bottom, TRUE)
        upper_right == OffsetPoint(spatial_ref, right, top, TRUE)
        world_extents == GetWorldExtents(spatial_ref)
    IN  Extents(XY(Max(lower_left.x, world_extents.lower_left.x),
                   Max(lower_left.y, world_extents.lower_left.y)),
                XY(Min(upper_right.x, world_extents.upper_right.x),
                   Min(upper_right.y, world_extents.upper_right.y)))

\* XY.almost_equal(other, places): the difference rounded to `places`
\* decimal places of a map unit is zero, that is, it is under half of
\* 10 ** -places
RECURSIVE Pow10(_)
Pow10(n) == IF n = 0 THEN 1 ELSE 10 * Pow10(n - 1)

AlmostEqualXY(a, b, places) ==
    /\ 2 * Pow10(places) * Abs(a.x - b.x) < Unit
    /\ 2 * Pow10(places) * Abs(a.y - b.y) < Unit

\* Extents.almost_equal(other, places)
AlmostEqual(a, b, places) ==
    /\ AlmostEqualXY(a.lower_left, b.lower_left, places)
    /\ AlmostEqualXY(a.upper_right, b.upper_right, places)

\* XY in Extents: the lower-left corner belongs, the upper-right does not
Contains(extents, point) ==
    /\ extents.lower_left.x <= point.x /\ point.x < extents.upper_right.x
    /\ extents.lower_left.y <= point.y /\ point.y < extents.upper_right.y

AlignmentExtentsAtZoom(raster, transform, res) ==
    GetTiledExtents(raster, transform, Zoom(res))

\* the extents GetTmsExtents compares with GetExtents(): tiled at the
\* native resolution, whatever resolution was asked for
AlignmentExtents(raster, transform, res) ==
    GetTiledExtents(raster, transform, NoZoom)

\* resolution=None in GetTmsExtents and GetWorldTmsExtents is
\* self.GetNativeResolution(), without the transform
DefaultResolution(raster, zoom) ==
    IF zoom.given THEN zoom.value
    ELSE GetNativeResolution(raster, NoTransform)

\* the extents GetTmsExtents turns into indices: tiled at the resolution
\* asked for
IndexedExtentsNative(raster, transform, res) ==
    GetTiledExtents(raster, transform, NoZoom)

IndexedExtents(raster, transform, res) ==
    GetTiledExtents(raster, transform, Zoom(res))

GetTmsExtents(raster, zoom, transform) ==
    LET res == DefaultResolution(raster, zoom)
        spatial_ref == DstRef(raster, transform)
        tile == GetTileDimensions(spatial_ref, res)
        extents == IndexedExtents(raster, transform, res)
        lower == OffsetPoint(spatial_ref, extents.lower_left.x,
                             extents.lower_left.y, FALSE)
        upper == OffsetPoint(spatial_ref, extents.upper_right.x,
                             extents.upper_right.y, FALSE)
    IN  IF ~AlmostEqual(AlignmentExtents(raster, transform, res),
                        GetExtents(raster, transform), 2)
        THEN Raised("UnalignedInputError")
        ELSE Returned(Extents(XY(IntDiv(lower.x, tile.x),
                                 IntDiv(lower.y, tile.y)),
                              XY(IntDiv(upper.x, tile.x),
                                 IntDiv(upper.y, tile.y))))

GetWorldTmsExtents(raster, zoom, transform) ==
    LET res == DefaultResolution(raster, zoom)
        spatial_ref == DstRef(raster, transform)
        world_tiles == GetTilesCount(spatial_ref, GetWorldExtents(spatial_ref),
                                     res)
    IN  Extents(XY(0, 0), world_tiles)

xrangeInclusive(a, b) == [i \in 1..Max(b - a + 1, 0) |-> a + i - 1]

\* xrange(a, b): a, a + 1, ..., b - 1
xrange(a, b) == [i \in 1..Max(b - a, 0) |-> a + i - 1]

\* `for y in xrange(...) if XY(x, y) not in data_extents`, for one x
RECURSIVE ForY(_, _, _)
ForY(x, ys, data_extents) ==
    IF ys = <<>> THEN <<>>
    ELSE (IF Contains(data_extents, XY(x, Head(ys))) THEN <<>>
          ELSE <<XY(x, Head(ys))>>)
         \o ForY(x, Tail(ys), data_extents)

\* `for x in xrange(...)`, the loop over y within it
RECURSIVE ForX(_, _, _)
ForX(xs, ys, data_extents) ==
    IF xs = <<>> THEN <<>>
    ELSE ForY(Head(xs), ys, data_extents) \o ForX(Tail(xs), ys, data_extents)

\* the tiles the generator expression yields, in its order: x outermost
Borders(world_extents, data_extents) ==
    ForX(xrange(world_extents.lower_left.x, world_extents.upper_right.x),
         xrange(world_extents.lower_left.y, world_extents.upper_right.y),
         data_extents)

\* world_extents and data_extents are computed in the body of the function,
\* once, before the generator is built
GetWorldTmsBorders(raster, zoom, transform) ==
    CHOOSE borders \in
        {IF data_extents.kind # "return" THEN data_extents
         ELSE Returned(Borders(world_extents, data_extents.output)) :
            world_extents \in {GetWorldTmsExtents(raster, zoom, transform)},
            data_extents \in {GetTmsExtents(raster, zoom, transform)}} : TRUE

\* A generator object: what it has still to yield.  `pass` counts the for
\* loops begun over it, `first` and `second` are what the first and the
\* second loop were handed, `stopped` that the loop under way has ended.
NoGenerator ==
    [items |-> <<>>, pass |-> 0, first |-> <<>>, second |-> <<>>,
     stopped |-> FALSE]

Generator(items) == [NoGenerator EXCEPT !.items = items]

IterRewound(g, complete) ==
    [g EXCEPT !.pass = g.pass + 1, !.stopped = FALSE, !.items = complete]

\* iter(generator) is the generator itself: nothing is rewound
IterSame(g, complete) == [g EXCEPT !.pass = g.pass + 1, !.stopped = FALSE]

\* the rasters: pixels of zoom 0 or zoom 1 of a projected globe, 128 or 256
\* of them each way; placed on the tile grid and off it, across the world's
\* edge by less and by more than the tolerance of alignment, and outside
\* the world
GlobeOrigins ==
    {-(TILE_SIDE \div 2) * Unit - 21, -(TILE_SIDE \div 2) * Unit - 20,
     -(TILE_SIDE \div 2) * Unit, -3 * (TILE_SIDE \div 8) * Unit, 0,
     (TILE_SIDE \div 2) * Unit}

GlobeTops ==
    {(TILE_SIDE \div 2) * Unit, 3 * (TILE_SIDE \div 8) * Unit, 0,
     -(TILE_SIDE \div 2) * Unit}

GlobeRasters ==
    {Dataset(x0, p, 0, y0, 0, -p, x_size, y_size, sr) :
        x0 \in GlobeOrigins, y0 \in GlobeTops, p \in {Unit, Unit \div 2},
        x_size \in {TILE_SIDE \div 2, TILE_SIDE},
        y_size \in {TILE_SIDE \div 2, TILE_SIDE}, sr \in GlobeRefs}

GlobeTransforms ==
    {NoTransform,
     Transform(1, 1, SpatialRef(TRUE, Globe, Globe)),
     Transform(1, 2, SpatialRef(FALSE, Globe, Globe))}

Zooms == {NoZoom, Zoom(0), Zoom(1), Zoom(2)}

GetTiledExtentsCall ==
    /\ scenario = "none"
    /\ \E raster \in GlobeRasters, transform \in GlobeTransforms,
          zoom \in Zooms :
        /\ GetNativeResolution(raster, transform) <= MaxZoom
        /\ scenario' = "GetTiledExtents"
        /\ callInput' = [op |-> "GetTiledExtents", raster |-> raster,
                         transform |-> transform, resolution |-> zoom]
        /\ result' = Returned(GetTiledExtents(raster, transform, zoom))
    /\ UNCHANGED <<engineCalls, pipelineVars, resolutionVars, geometryVars,
                   cacheVars>>

\* the zoom a call used
ZoomUsed(call) ==
    IF call.resolution.given THEN call.resolution.value
    ELSE GetNativeResolution(call.raster, call.transform)

WellFormed(extents) ==
    /\ extents.lower_left.x <= extents.upper_right.x
    /\ extents.lower_left.y <= extents.upper_right.y

\* a raster of one pixel whose geometric extents are the box
RasterOver(extents, ref) ==
    Dataset(extents.lower_left.x,
            extents.upper_right.x - extents.lower_left.x, 0,
            extents.upper_right.y, 0,
            extents.lower_left.y - extents.upper_right.y, 1, 1, ref)

\* GetTiledExtents at the same zoom, of a raster in the destination
\* projection whose geometric extents are the box just returned
GetTiledExtentsAgain ==
    /\ scenario = "GetTiledExtents"
    /\ again = NoResult
    /\ WellFormed(result.output)
    /\ again' = Returned(GetTiledExtents(
                    RasterOver(result.output,
                               DstRef(callInput.raster, callInput.transform)),
                    NoTransform, Zoom(ZoomUsed(callInput))))
    /\ UNCHANGED <<scenario, result, engineCalls, callInput, pipelineVars,
                   resolutionVars, gen, cacheVars>>

GetTmsExtentsCall ==
    /\ scenario = "none"
    /\ \E raster \in GlobeRasters, transform \in GlobeTransforms,
          zoom \in Zooms :
        /\ GetNativeResolution(raster, transform) <= MaxZoom
        /\ GetNativeResolution(raster, NoTransform) <= MaxZoom
        /\ scenario' = "GetTmsExtents"
        /\ callInput' = [op |-> "GetTmsExtents", raster |-> raster,
                         transform |-> transform, resolution |-> zoom]
        /\ result' = GetTmsExtents(raster, zoom, transform)
    /\ UNCHANGED <<engineCalls, pipelineVars, resolutionVars, geometryVars,
                   cacheVars>>

GetWorldTmsBordersCall ==
    /\ scenario = "none"
    /\ \E raster \in GlobeRasters, transform \in GlobeTransforms,
          zoom \in Zooms :
        /\ GetNativeResolution(raster, transform) <= MaxZoom
        /\ GetNativeResolution(raster, NoTransform) <= MaxZoom
        /\ scenario' = "GetWorldTmsBorders"
        /\ callInput' = [op |-> "GetWorldTmsBorders", raster |-> raster,
                         transform |-> transform, resolution |-> zoom]
        /\ \E borders \in {GetWorldTmsBorders(raster, zoom, transform)} :
            /\ result' = borders
            /\ gen' = IF borders.kind = "return"
                      THEN Generator(borders.output) ELSE NoGenerator
    /\ UNCHANGED <<engineCalls, pipelineVars, resolutionVars, again,
                   cacheVars>>

BordersReturned == scenario = "GetWorldTmsBorders" /\ result.kind = "return"

\* `for tile in borders:` begins: the loop asks the generator for its iterator
BordersIter ==
    /\ BordersReturned
    /\ gen.pass < 2
    /\ gen' = IterSame(gen, result.output)
    /\ UNCHANGED <<scenario, result, engineCalls, callInput, pipelineVars,
                   resolutionVars, again, cacheVars>>

\* the loop asks for the next tile: it is handed one, or the loop ends
BordersNextTile ==
    /\ BordersReturned
    /\ gen.pass >= 1
    /\ ~gen.stopped
    /\ gen' = IF gen.items = <<>> THEN [gen EXCEPT !.stopped = TRUE]
              ELSE IF gen.pass = 1
              THEN [gen EXCEPT !.items = Tail(gen.items),
                               !.first = Append(gen.first, Head(gen.items))]
              ELSE [gen EXCEPT !.items = Tail(gen.items),
                               !.second = Append(gen.second, Head(gen.items))]
    /\ UNCHANGED <<scenario, result, engineCalls, callInput, pipelineVars,
                   resolutionVars, again, cacheVars>>

-----------------------------------------------------------------------------
(* supported_formats and resampling_methods *)

GDALWARP == "gdalwarp"
Commands == {GDALWARP, "gdalwarp-1.9"}

\* the values a function attribute _cache holds: None or a list
PyNone == [type |-> "None", val |-> <<>>]
List(elements) == [type |-> "list", val |-> elements]

\* A line of `--formats` output: the line itself, and, for a line
\* format_re matches, the groups name, attributes and description.
TextLine(text) ==
    [text |-> text, matches |-> FALSE, name |-> "", attributes |-> {},
     description |-> ""]
FormatLine(name, attributes, description) ==
    [text |-> "", matches |-> TRUE, name |-> name, attributes |-> attributes,
     description |-> description]

FORMATS_HEADER == TextLine("Supported Formats:")

GdalFormat(line) ==
    [name |-> line.name, attributes |-> line.attributes,
     description |-> line.description,
     can_read |-> "r" \in line.attributes,
     can_write |-> "w" \in line.attributes,
     can_update |-> "+" \in line.attributes,
     has_virtual_io |-> "v" \in line.attributes]

\* the loop of supported_formats over output.splitlines()
RECURSIVE ParseFormats(_, _)
ParseFormats(lines, parsed) ==
    IF lines = <<>> THEN parsed
    ELSE IF parsed = PyNone
    THEN ParseFormats(Tail(lines),
                      IF Head(lines) = FORMATS_HEADER THEN List(<<>>)
                      ELSE parsed)
    ELSE ParseFormats(Tail(lines),
                      IF Head(lines).matches
                      THEN List(Append(parsed.val, GdalFormat(Head(lines))))
                      ELSE parsed)

\* A line of `--help` output: its comma-separated parts, each the words
\* left by strip(' \t.') and split(), and whether it ends with a full stop.
HelpLine(parts, stop) == [parts |-> parts, stop |-> stop]

METHODS_HEADER ==
    HelpLine(<<<<"Available", "resampling", "methods:">>>>, FALSE)

RECURSIVE FirstWords(_)
FirstWords(parts) ==
    IF parts = <<>> THEN <<>>
    ELSE <<Head(parts)[1]>> \o FirstWords(Tail(parts))

\* m.strip(' \t.').split()[0] of a part without a word
RaisesIndexError(line) == \E i \in 1..Len(line.parts) : line.parts[i] = <<>>

IndexError == [type |-> "IndexError", val |-> <<>>]

\* the loop of resampling_methods over output.splitlines()
RECURSIVE ParseMethods(_, _)
ParseMethods(lines, parsed) ==
    IF lines = <<>> THEN parsed
    ELSE IF parsed = PyNone
    THEN ParseMethods(Tail(lines),
                      IF Head(lines) = METHODS_HEADER THEN List(<<>>)
                      ELSE parsed)
    ELSE IF RaisesIndexError(Head(lines)) THEN IndexError
    ELSE LET extended == List(parsed.val \o FirstWords(Head(lines).parts))
         IN  IF Head(lines).stop THEN extended
             ELSE ParseMethods(Tail(lines), extended)

\* what the engine does when run: its exit code and its output
Response(returncode, output) == [returncode |-> returncode, output |-> output]

\* `_cache is None` when the call begins
Unpopulated(cache) == cache = PyNone

\* [cache, value, queried]: the cache when the call ends, what the call
\* returned or raised, and whether it ran the engine
supported_formats(cmd, response, cache) ==
    IF ~Unpopulated(cache)
    THEN [cache |-> cache, value |-> Returned(cache), queried |-> FALSE]
    ELSE IF response.returncode # 0
    THEN [cache |-> cache, value |-> Raised("CalledProcessError"),
          queried |-> TRUE]
    ELSE LET parsed == ParseFormats(response.output, PyNone)
         IN  [cache |-> parsed, value |-> Returned(parsed), queried |-> TRUE]

resampling_methods(cmd, response, cache) ==
    IF ~Unpopulated(cache)
    THEN [cache |-> cache, value |-> Returned(cache), queried |-> FALSE]
    ELSE IF response.returncode \notin {0, 1}
    THEN [cache |-> cache, value |-> Raised("CalledProcessError"),
          queried |-> TRUE]
    ELSE LET parsed == ParseMethods(response.output, PyNone)
         IN  IF parsed = IndexError
             THEN [cache |-> cache, value |-> Raised("IndexError"),
                   queried |-> TRUE]
             ELSE [cache |-> parsed, value |-> Returned(parsed),
                   queried |-> TRUE]

GTiff == FormatLine("GTiff", {"r", "w", "+", "v"}, "GeoTIFF")
PNG == FormatLine("PNG", {"r", "w", "v"}, "Portable Network Graphics")

FormatsResponses ==
    {Response(0, <<FORMATS_HEADER, GTiff>>),
     Response(0, <<TextLine("usage"), FORMATS_HEADER, GTiff, TextLine(""),
                   PNG>>),
     Response(0, <<GTiff, PNG>>),                   \* no header line
     Response(1, <<>>)}

Near == <<"near", "(default)">>

MethodsResponses ==
    {Response(0, <<METHODS_HEADER,
                   HelpLine(<<Near, <<"bilinear">>, <<"cubic">>>>, TRUE)>>),
     Response(1, <<HelpLine(<<<<"Usage:", "gdalwarp">>>>, FALSE),
                   METHODS_HEADER,
                   HelpLine(<<Near, <<"bilinear">>>>, FALSE),
                   HelpLine(<<<<"cubic">>, <<"lanczos">>>>, TRUE),
                   HelpLine(<<<<"more">>>>, FALSE)>>),
     Response(0, <<HelpLine(<<Near, <<"bilinear">>>>, TRUE)>>),  \* no header
     Response(0, <<METHODS_HEADER, HelpLine(<<Near, <<>>>>, FALSE)>>),
     Response(2, <<>>)}

Answer(capability, cmd, call) ==
    [capability |-> capability, cmd |-> cmd, value |-> call.value,
     queried |-> call.queried]

CapabilitiesCallable ==
    /\ scenario \in {"none", "capabilities"}
    /\ Len(answers) < MaxCalls
    /\ scenario' = "capabilities"

CallSupportedFormats ==
    /\ CapabilitiesCallable
    /\ \E cmd \in Commands, response \in FormatsResponses :
        LET call == supported_formats(cmd, response, caches.formats)
        IN  /\ caches' = [caches EXCEPT !.formats = call.cache]
            /\ answers' = Append(answers, Answer("formats", cmd, call))
            /\ engineCalls' = IF call.queried
                              THEN Append(engineCalls,
                                          <<Arg(cmd), Arg("--formats")>>)
                              ELSE engineCalls
    /\ UNCHANGED <<result, callInput, pipelineVars, resolutionVars,
                   geometryVars>>

CallResamplingMethods ==
    /\ CapabilitiesCallable
    /\ \E cmd \in Commands, response \in MethodsResponses :
        LET call == resampling_methods(cmd, response, caches.methods)
        IN  /\ caches' = [caches EXCEPT !.methods = call.cache]
            /\ answers' = Append(answers, Answer("methods", cmd, call))
            /\ engineCalls' = IF call.queried
                              THEN Append(engineCalls,
                                          <<Arg(cmd), Arg("--help")>>)
                              ELSE engineCalls
    /\ UNCHANGED <<result, callInput, pipelineVars, resolutionVars,
                   geometryVars>>

-----------------------------------------------------------------------------

Init ==
    /\ scenario = "none"
    /\ result = NoResult
    /\ engineCalls = <<>>
    /\ callInput = NoInput
    /\ p_pc = "idle"
    /\ fs = <<>>
    /\ fs0 = <<>>
    /\ functions = <<>>
    /\ inputfile = ""
    /\ outputfile = ""
    /\ previous = ""
    /\ vrt = ""
    /\ tmpfiles = <<>>
    /\ stepCalls = <<>>
    /\ renderCalls = <<>>
    /\ created = {}
    /\ proc = NoProc
    /\ nr_pc = "idle"
    /\ resolution = 0
    /\ again = NoResult
    /\ gen = NoGenerator
    /\ caches = [formats |-> PyNone, methods |-> PyNone]
    /\ answers = <<>>

Next ==
    \/ CallCheckOutputGdal
    \/ CallExtractColorBand
    \/ CallWarp
    \/ PipelineCall
    \/ PipelineStep
    \/ RenderStart
    \/ EngineWrite
    \/ EngineExit
    \/ GetNativeResolutionCall
    \/ GetNativeResolutionStep
    \/ GetTiledExtentsCall
    \/ GetTiledExtentsAgain
    \/ GetTmsExtentsCall
    \/ GetWorldTmsBordersCall
    \/ BordersIter
    \/ BordersNextTile
    \/ CallSupportedFormats
    \/ CallResamplingMethods

Spec == Init /\ [][Next]_vars

-----------------------------------------------------------------------------
(* pipeline: temporary files, order of the steps, the empty sequence *)

PipelineDone == scenario = "pipeline" /\ p_pc = "done"

VrtTempFiles == {t \in created : t.of = "vrt"}

\* C1: when pipeline() has returned or raised, whichever step or the render
\* failed, no temporary file written from a step's virtual raster exists.
C1_TempFilesReleased ==
    (PipelineDone /\ Len(functions) >= 1)
        => \A t \in VrtTempFiles : fs[t.name] = Absent

\* the second of three steps raised after the first one's file was written
C1_Witness ==
    /\ PipelineDone
    /\ Len(functions) = 3
    /\ result.kind = "StepError"
    /\ Len(stepCalls) = 2
    /\ VrtTempFiles = {[name |-> StepTempName(0), of |-> "vrt"]}
    /\ fs[StepTempName(0)] = Absent

\* C3: the steps run in the order given, each at most once and none after
\* a failure; the first is handed the input path and every later one the
\* temp file holding the VRT of the step before it; render runs once, after
\* the last step, on the last step's VRT and the caller's output path.
C3_StepsInOrder ==
    scenario = "pipeline" =>
        /\ Len(stepCalls) <= Len(functions)
        /\ \A k \in 1..Len(stepCalls) :
            /\ stepCalls[k].index = k - 1
            /\ k < Len(stepCalls) => stepCalls[k].ok
            /\ k = 1 => stepCalls[k].arg = inputfile
            /\ k > 1 => /\ stepCalls[k].arg # inputfile
                        /\ [name |-> stepCalls[k].arg, of |-> "vrt"] \in created
                        /\ stepCalls[k].content = VrtFile(functions[k - 1])
        /\ Len(renderCalls) <= 1
        /\ Len(renderCalls) = 1 =>
            /\ Len(stepCalls) = Len(functions)
            /\ \A k \in 1..Len(stepCalls) : stepCalls[k].ok
            /\ renderCalls[1] = [content |-> functions[Len(functions)],
                                 outputfile |-> outputfile]
        /\ (/\ p_pc \in {"engine", "done"}
            /\ Len(functions) >= 1
            /\ \A k \in 1..Len(stepCalls) : stepCalls[k].ok)
                => Len(renderCalls) = 1

\* three steps ran and the render followed
C3_Witness ==
    /\ PipelineDone
    /\ Len(stepCalls) = 3
    /\ stepCalls[3].arg = StepTempName(1)
    /\ functions[1] # functions[2]
    /\ Len(renderCalls) = 1

\* C4: with no steps pipeline() raises its validation error at once: no
\* step is called, no temp file is made, render is not called and no file
\* changes.
C4_EmptyRejected ==
    (scenario = "pipeline" /\ Len(functions) = 0)
        => /\ p_pc = "done"
           /\ result.kind = "ValueError"
           /\ stepCalls = <<>>
           /\ renderCalls = <<>>
           /\ engineCalls = <<>>
           /\ created = {}
           /\ fs = fs0

C4_Witness ==
    /\ PipelineDone
    /\ functions = <<>>
    /\ result.kind = "ValueError"
    /\ fs0[outputfile] = Old

-----------------------------------------------------------------------------
(* VRT.render: the output path *)

RenderExited == scenario = "pipeline" /\ proc.state = "exited"

\* C2: the output path holds what it held before the call until the engine
\* has exited with code 0, and then the finished GeoTIFF; it never holds a
\* part of one.  When the engine fails the output path is as before, the
\* error reaches the caller and the render's temp file is gone.
C2_OutputAtomic ==
    scenario = "pipeline" =>
        /\ fs[outputfile] \in {fs0[outputfile], GeoTiff(vrt)}
        /\ fs[outputfile] # fs0[outputfile]
            => RenderExited /\ proc.child.returncode = 0
        /\ \A path \in OutputPaths \ {outputfile} : fs[path] = fs0[path]
        /\ (RenderExited /\ proc.child.returncode = 0)
            => /\ fs[outputfile] = GeoTiff(vrt)
               /\ result.kind = "return"
        /\ (RenderExited /\ proc.child.returncode # 0)
            => /\ fs[outputfile] = fs0[outputfile]
               /\ result.kind = "CalledGdalError"
               /\ result.returncode = proc.child.returncode
               /\ fs[RenderTempName] = Absent

\* the engine failed after it had begun to write over an earlier output
C2_Witness ==
    /\ RenderExited
    /\ proc.child.returncode = 1
    /\ fs0[outputfile] = Old
    /\ fs[outputfile] = Old
    /\ fs[RenderTempName] = Absent
    /\ result.kind = "CalledGdalError"

-----------------------------------------------------------------------------
(* check_output_gdal and the steps that call it *)

\* text is all of stream but the newlines that end it
StrippedOf(text, stream) ==
    /\ Len(text) <= Len(stream)
    /\ text = SubSeq(stream, 1, Len(text))
    /\ \A i \in (Len(text) + 1)..Len(stream) : stream[i] = NL
    /\ text # <<>> => text[Len(text)] # NL

\* C5: check_output_gdal returns the captured standard output exactly when
\* the child exits with code 0; otherwise it raises CalledGdalError with
\* the exit code, the command, the standard output and the error stream
\* less the newlines that end it.
C5_ExitCodeDecides ==
    scenario = "check_output_gdal" =>
        LET p == callInput.child
        IN  /\ result.kind = "return" <=> p.returncode = 0
            /\ p.returncode = 0 => result.output = p.stdout
            /\ p.returncode # 0 =>
                /\ result.kind = "CalledGdalError"
                /\ result.returncode = p.returncode
                /\ result.cmd = callInput.cmd
                /\ result.output = p.stdout
                /\ StrippedOf(result.error, p.stderr)
            /\ (p.returncode = 1 /\ p.stderr = <<"boom">>)
                => result.returncode = 1 /\ result.error = <<"boom">>

\* exit code 1 with "boom\n" on the error stream
C5_Witness ==
    /\ scenario = "check_output_gdal"
    /\ callInput.child.returncode = 1
    /\ callInput.child.stderr = <<"boom", NL>>
    /\ result.kind = "CalledGdalError"
    /\ result.error = <<"boom">>

ExtractOpened ==
    scenario = "extract_color_band" /\ callInput.dataset.open = "ok"

\* C6: extract_color_band raises its range error, and runs no engine,
\* exactly when band < 1 or band > band_count; any band in 1..band_count
\* passes and the engine is run once.
C6_BandRange ==
    ExtractOpened =>
        LET band == callInput.band
            band_count == Len(callInput.dataset.nodata)
        IN  /\ result.kind = "ValueError" <=> (band < 1 \/ band > band_count)
            /\ result.kind = "ValueError" => engineCalls = <<>>
            /\ band \in 1..band_count => Len(engineCalls) = 1

\* band = band_count + 1 is refused
C6_Witness ==
    /\ ExtractOpened
    /\ Len(callInput.dataset.nodata) = 2
    /\ callInput.band = 3
    /\ result.kind = "ValueError"
    /\ engineCalls = <<>>

\* the error stream is the documented text and the newlines that end it
IsDocumentedQuirk(stream) ==
    /\ stream # <<>>
    /\ stream[1] = STDOUT_QUIRK
    /\ \A i \in 2..Len(stream) : stream[i] = NL

EngineFailed ==
    /\ scenario \in {"extract_color_band", "warp"}
    /\ Len(engineCalls) = 1
    /\ callInput.child.returncode # 0

\* C7: a failed engine call is recovered from only in extract_color_band
\* and only when the error stream is the documented /dev/stdout text; the
\* result is then a VRT of the captured standard output.  Every other
\* failure there, and every failure in warp and in render, reaches the
\* caller as CalledGdalError.
C7_OnlyQuirkRecovered ==
    /\ EngineFailed =>
        IF /\ scenario = "extract_color_band"
           /\ IsDocumentedQuirk(callInput.child.stderr)
        THEN result = VRT(callInput.child.stdout)
        ELSE /\ result.kind = "CalledGdalError"
             /\ result.returncode = callInput.child.returncode
    /\ (RenderExited /\ proc.child.returncode # 0) =>
        /\ result.kind = "CalledGdalError"
        /\ result.returncode = proc.child.returncode

\* the quirk recovered in extract_color_band
C7_Witness ==
    /\ scenario = "extract_color_band"
    /\ EngineFailed
    /\ callInput.child.stderr = <<STDOUT_QUIRK, NL>>
    /\ callInput.child.stdout = <<"<VRTDataset/>">>
    /\ result = VRT(<<"<VRTDataset/>">>)

-----------------------------------------------------------------------------
(* warp: the resampling method *)

WarpOpened == scenario = "warp" /\ callInput.dataset.open = "ok"

\* the argument that follows `flag` in the one engine call, <<>> if none
ArgAfter(flag) ==
    LET cmd == engineCalls[1]
        at == {i \in 1..(Len(cmd) - 1) : cmd[i] = Arg(flag)}
    IN  IF at = {} THEN <<>> ELSE cmd[(CHOOSE i \in at : TRUE) + 1]

HasFlag(flag) == \E i \in 1..Len(engineCalls[1]) : engineCalls[1][i] = Arg(flag)

RecognizedMember(resampling) ==
    /\ resampling.type = "enum"
    /\ resampling.val \in {"GRA_NearestNeighbour", "GRA_Bilinear", "GRA_Cubic",
                           "GRA_CubicSpline", "GRA_Lanczos"}

\* the argument the engine is to be given for an accepted method
NameOf(resampling) ==
    IF resampling.type = "str" THEN resampling.val
    ELSE CASE resampling.val = "GRA_NearestNeighbour" -> "near"
           [] resampling.val = "GRA_Bilinear" -> "bilinear"
           [] resampling.val = "GRA_Cubic" -> "cubic"
           [] resampling.val = "GRA_CubicSpline" -> "cubicspline"
           [] resampling.val = "GRA_Lanczos" -> "lanczos"

\* what warp does with a method, given the set of names it accepts
ResamplingDecidedBy(names) ==
    WarpOpened =>
        LET resampling == callInput.resampling
            accepted == \/ RecognizedMember(resampling)
                        \/ resampling.type = "str" /\ resampling.val \in names
        IN  /\ result.kind = "UnknownResamplingMethodError"
                <=> (resampling # None /\ ~accepted)
            /\ result.kind = "UnknownResamplingMethodError"
                => engineCalls = <<>>
            /\ accepted => /\ Len(engineCalls) = 1
                           /\ ArgAfter("-r") = Arg(NameOf(resampling))
            /\ resampling = None => /\ Len(engineCalls) = 1
                                    /\ ~HasFlag("-r")

\* C8 as claimed: warp raises UnknownResamplingMethodError exactly when the
\* value is neither a recognized enum member nor a name the engine
\* advertises; accepted values reach the engine after -r, and without a
\* value no -r is passed.
C8_AdvertisedAccepted == ResamplingDecidedBy(callInput.advertised)

\* What warp does instead: the names accepted are the five values of
\* RESAMPLING_METHODS, whatever the engine advertises.
TableAccepted ==
    ResamplingDecidedBy({"near", "bilinear", "cubic", "cubicspline", "lanczos"})

\* a name the engine advertises and warp refuses
AdvertisedRefused ==
    /\ WarpOpened
    /\ callInput.resampling = Str("average")
    /\ "average" \in callInput.advertised
    /\ result.kind = "UnknownResamplingMethodError"
    /\ engineCalls = <<>>

-----------------------------------------------------------------------------
(* warp: the no-data values *)

\* C9: the engine call of warp has a -dstnodata argument with one entry
\* for each band exactly when a band of the source declares a no-data
\* value, the value 0 included.
C9_NoDataPropagated ==
    (WarpOpened /\ Len(engineCalls) = 1) =>
        LET nodata == callInput.dataset.nodata
            declared == \E i \in 1..Len(nodata) : nodata[i].declared
        IN  /\ HasFlag("-dstnodata") <=> declared
            /\ declared => Len(ArgAfter("-dstnodata")) = Len(nodata)

-----------------------------------------------------------------------------
(* GetNativeResolution: the zoom returned *)

ResolutionReturned ==
    /\ scenario = "GetNativeResolution"
    /\ nr_pc = "returned"
    /\ ~callInput.maximum.given
    /\ SrcPixelSize(callInput.raster) > 0

\* a whole number n with n * ERROR_DENOMINATOR <= d is at most
\* d \div ERROR_DENOMINATOR, and no length exceeds twice the world's
LargestQuotient == ((World - 1) + World) \div ERROR_DENOMINATOR

\* pixel <= size + tolerance, the tolerance being of / ERROR_DENOMINATOR
WithinTolerance(pixel, size, of) ==
    \/ pixel - size <= 0
    \/ /\ pixel - size <= LargestQuotient
       /\ (pixel - size) * ERROR_DENOMINATOR <= of

\* pixel < size - tolerance
BelowTolerance(pixel, size, of) ==
    /\ size - pixel > 0
    /\ \/ size - pixel > LargestQuotient
       \/ (size - pixel) * ERROR_DENOMINATOR > of

\* the zoom returned is the first whose pixel is within tolerance of
\* `size`, and the next zoom's pixel is below it by more than the tolerance
FirstZoomWithin(size) ==
    LET dst_ref == DstRef(callInput.raster, callInput.transform)
        of == DstPixelSize(callInput.raster, callInput.transform)
        pixel(z) == ResPixelSize(dst_ref, z)
    IN  /\ resolution >= 0
        /\ WithinTolerance(pixel(resolution), size, of)
        /\ \A z \in 0..(resolution - 1) : ~WithinTolerance(pixel(z), size, of)
        /\ BelowTolerance(pixel(resolution + 1), size, of)

\* C10 as claimed: without a maximum, the zoom returned for a raster of
\* positive pixel size is the smallest whose pixel size is at most the
\* source pixel size plus the tolerance, and the pixel size of the zoom
\* after it is below the source pixel size less the tolerance.
C10_SmallestZoomForSource ==
    ResolutionReturned => FirstZoomWithin(SrcPixelSize(callInput.raster))

\* C10, amended: the pixel size compared with is the source pixel size
\* carried into the destination projection by the transform (the source
\* pixel size itself when there is no transform).
C10_SmallestZoomForDestination ==
    ResolutionReturned
        => FirstZoomWithin(DstPixelSize(callInput.raster, callInput.transform))

\* a transform that halves the pixel, and a zoom accepted by the tolerance
C10_Witness ==
    /\ ResolutionReturned
    /\ callInput.transform.given
    /\ callInput.transform.den = 2
    /\ resolution = 1
    /\ ResPixelSize(callInput.transform.dst_ref, 1)
         > DstPixelSize(callInput.raster, callInput.transform)

-----------------------------------------------------------------------------
(* GetTiledExtents *)

TiledExtentsReturned == scenario = "GetTiledExtents" /\ result.kind = "return"

CallRef == DstRef(callInput.raster, callInput.transform)

CallExtents == GetExtents(callInput.raster, callInput.transform)

Inside(inner, outer) ==
    /\ outer.lower_left.x <= inner.lower_left.x
    /\ outer.lower_left.y <= inner.lower_left.y
    /\ inner.upper_right.x <= outer.upper_right.x
    /\ inner.upper_right.y <= outer.upper_right.y

\* every edge of the box is a coordinate of the world
EdgesInside(box, world) ==
    /\ world.lower_left.x <= box.lower_left.x
    /\ box.lower_left.x <= world.upper_right.x
    /\ world.lower_left.x <= box.upper_right.x
    /\ box.upper_right.x <= world.upper_right.x
    /\ world.lower_left.y <= box.lower_left.y
    /\ box.lower_left.y <= world.upper_right.y
    /\ world.lower_left.y <= box.upper_right.y
    /\ box.upper_right.y <= world.upper_right.y

\* C11: for every raster, also one lying partly or wholly outside the world
\* of the destination projection, and every zoom, the box GetTiledExtents
\* returns has its four edges inside the world extents and is well-formed
\* (lower_left.x <= upper_right.x and lower_left.y <= upper_right.y).
C11_InsideWorldWellFormed ==
    TiledExtentsReturned
        => /\ EdgesInside(result.output, GetWorldExtents(CallRef))
           /\ WellFormed(result.output)

\* the raster of C12: geotransform (0, 1, 0, 0, 0, -1), 256 x 256 pixels,
\* carried unchanged into a projected globe whose zoom-0 tile is 256 x 256
IsUnitRasterCall ==
    /\ TiledExtentsReturned
    /\ callInput.raster.x0 = 0 /\ callInput.raster.y0 = 0
    /\ callInput.raster.width = Unit /\ callInput.raster.height = -Unit
    /\ callInput.raster.RasterXSize = TILE_SIDE
    /\ callInput.raster.RasterYSize = TILE_SIDE
    /\ callInput.transform = Transform(1, 1, SpatialRef(TRUE, Globe, Globe))
    /\ ~callInput.resolution.given

\* a box given in map units
Box(left, bottom, right, top) ==
    Extents(XY(left * Unit, bottom * Unit), XY(right * Unit, top * Unit))

UnitRasterResolutionAndExtents ==
    /\ GetNativeResolution(callInput.raster, callInput.transform) = 0
    /\ CallExtents = Box(0, -256, 256, 0)

\* C12 as claimed: for that raster NativeResolution() is 0, Extents() is
\* ((0, -256), (256, 0)) and TiledExtents() is ((-128, -128), (128, 0)).
C12_TiledExtentsTopZero ==
    IsUnitRasterCall
        => /\ UnitRasterResolutionAndExtents
           /\ result.output = Box(-128, -128, 128, 0)

\* C12, amended: for that raster NativeResolution() is 0, Extents() is
\* ((0, -256), (256, 0)) and TiledExtents() is ((-128, -128), (128, 128)):
\* the top edge 0 lies between two grid lines of zoom 0 and is taken up to
\* the upper one, the edge of the world.
C12_TiledExtentsTopOfWorld ==
    IsUnitRasterCall
        => /\ UnitRasterResolutionAndExtents
           /\ result.output = Box(-128, -128, 128, 128)

C12_Witness ==
    /\ IsUnitRasterCall
    /\ result.output.upper_right.y = (TILE_SIDE \div 2) * Unit

\* C13: GetTiledExtents at the same zoom of a raster whose geometric extents
\* are a box GetTiledExtents returned gives that box again.
C13_Idempotent ==
    (scenario = "GetTiledExtents" /\ again.kind = "return")
        => again.output = result.output

\* a geographic destination, and a box cut off at the edge of the world
C13_Witness ==
    /\ scenario = "GetTiledExtents"
    /\ again.kind = "return"
    /\ ~CallRef.projected
    /\ result.output.lower_left.x < result.output.upper_right.x
    /\ result.output.lower_left.y < result.output.upper_right.y
    /\ result.output.upper_right.x = GetWorldExtents(CallRef).upper_right.x
    /\ CallExtents.upper_right.x > GetWorldExtents(CallRef).upper_right.x

OnGrid(point, tile) == point.x % tile.x = 0 /\ point.y % tile.y = 0

CallTile == GetTileDimensions(CallRef, ZoomUsed(callInput))

\* C19: for a raster whose geometric extents lie within the world extents
\* and every zoom, the box returned contains the geometric extents, each of
\* its edges is, once offset, a whole multiple of the tile dimension of the
\* zoom, and each edge is less than one tile dimension from the edge of the
\* geometric extents it came from.
C19_SnapsOutward ==
    (TiledExtentsReturned /\ Inside(CallExtents, GetWorldExtents(CallRef)))
        => LET box == result.output
               lower == box.lower_left
               upper == box.upper_right
           IN  /\ Inside(CallExtents, box)
               /\ OnGrid(OffsetPoint(CallRef, lower.x, lower.y, FALSE), CallTile)
               /\ OnGrid(OffsetPoint(CallRef, upper.x, upper.y, FALSE), CallTile)
               /\ CallExtents.lower_left.x - lower.x < CallTile.x
               /\ CallExtents.lower_left.y - lower.y < CallTile.y
               /\ upper.x - CallExtents.upper_right.x < CallTile.x
               /\ upper.y - CallExtents.upper_right.y < CallTile.y

\* negative coordinates off the grid of zoom 2, inside the world
C19_Witness ==
    /\ TiledExtentsReturned
    /\ Inside(CallExtents, GetWorldExtents(CallRef))
    /\ ZoomUsed(callInput) = 2
    /\ CallExtents.upper_right.x < 0
    /\ CallExtents.lower_left.x > result.output.lower_left.x
    /\ CallExtents.upper_right.x < result.output.upper_right.x
    /\ CallExtents.upper_right.y < result.output.upper_right.y

-----------------------------------------------------------------------------
(* GetTmsExtents and GetWorldTmsBorders *)

TmsExtentsCalled == scenario = "GetTmsExtents"

TmsExtentsReturned == TmsExtentsCalled /\ result.kind = "return"

BordersCalled == scenario = "GetWorldTmsBorders"

\* the raster's extents agree, to two decimal places, with its tiled
\* extents at its native resolution
TileAligned ==
    AlmostEqual(GetTiledExtents(callInput.raster, callInput.transform, NoZoom),
                CallExtents, 2)

\* C14: GetTmsExtents, and so GetWorldTmsBorders, raises the unaligned-input
\* error and returns no tile indices exactly when the raster's tiled extents
\* at its native resolution differ from its geometric extents by more than
\* the tolerance of two decimal places, whatever zoom was asked for; when
\* they agree, tile indices are returned.
C14_RefusedIffUnaligned ==
    (TmsExtentsCalled \/ BordersCalled)
        => /\ result.kind = "UnalignedInputError" <=> ~TileAligned
           /\ result.kind = "return" <=> TileAligned
           /\ BordersCalled /\ ~TileAligned => gen = NoGenerator

\* a raster on the grid of its native zoom 1, asked about at zoom 0, where
\* the tile is larger than the raster
C14_Witness ==
    /\ TmsExtentsReturned
    /\ callInput.resolution = Zoom(0)
    /\ GetNativeResolution(callInput.raster, callInput.transform) = 1
    /\ ~AlmostEqual(GetTiledExtents(callInput.raster, callInput.transform,
                                    Zoom(0)), CallExtents, 2)

\* the zoom GetTmsExtents and GetWorldTmsExtents used
TmsZoom == DefaultResolution(callInput.raster, callInput.resolution)

TmsTile == GetTileDimensions(CallRef, TmsZoom)

\* the corner of the tile of that index: the index times the tile
\* dimensions, the origin offset undone
TileCorner(index) ==
    OffsetPoint(CallRef, index.x * TmsTile.x, index.y * TmsTile.y, TRUE)

NativeTiledExtents ==
    GetTiledExtents(callInput.raster, callInput.transform, NoZoom)

SpansATile ==
    /\ NativeTiledExtents.lower_left.x < NativeTiledExtents.upper_right.x
    /\ NativeTiledExtents.lower_left.y < NativeTiledExtents.upper_right.y

\* C15: for a tile-aligned raster spanning at least one tile and every zoom,
\* GetTmsExtents returns indices whose upper bound is above the lower bound
\* in each axis, and the indices times the tile dimensions, the origin
\* offset undone, are the box GetTiledExtents returns at that zoom.
C15_IndicesGiveTiledExtents ==
    (TmsExtentsCalled /\ TileAligned /\ SpansATile)
        => /\ result.kind = "return"
           /\ result.output.upper_right.x > result.output.lower_left.x
           /\ result.output.upper_right.y > result.output.lower_left.y
           /\ Extents(TileCorner(result.output.lower_left),
                      TileCorner(result.output.upper_right))
                = GetTiledExtents(callInput.raster, callInput.transform,
                                  Zoom(TmsZoom))

\* a raster of one tile at its native zoom 1, indexed at zoom 2 on a
\* geographic grid: two tiles each way, away from the origin
C15_Witness ==
    /\ TmsExtentsReturned
    /\ ~CallRef.projected
    /\ TmsZoom = 2
    /\ result.output.lower_left.x > 0
    /\ result.output.upper_right.x - result.output.lower_left.x = 2
    /\ result.output.upper_right.y - result.output.lower_left.y = 2

WorldTiles ==
    GetWorldTmsExtents(callInput.raster, callInput.resolution,
                       callInput.transform)

DataTiles ==
    GetTmsExtents(callInput.raster, callInput.resolution,
                  callInput.transform).output

TilesOf(extents) ==
    {XY(x, y) : x \in extents.lower_left.x..(extents.upper_right.x - 1),
                y \in extents.lower_left.y..(extents.upper_right.y - 1)}

Occurrences(seq, e) == Cardinality({i \in 1..Len(seq) : seq[i] = e})

\* the first loop over the generator ran to its end
FirstPassComplete == BordersReturned /\ gen.pass = 1 /\ gen.stopped

\* C16: what GetWorldTmsBorders yields for a tile-aligned raster are world
\* tile indices only, none of them inside GetTmsExtents (lower bound
\* included, upper excluded), every world tile index outside it exactly
\* once, and so as many as the world has tiles less the tiles of the data.
C16_BordersAreTheRest ==
    FirstPassComplete
        => /\ \A i \in 1..Len(gen.first) :
                /\ gen.first[i] \in TilesOf(WorldTiles)
                /\ gen.first[i] \notin TilesOf(DataTiles)
           /\ \A tile \in TilesOf(WorldTiles) \ TilesOf(DataTiles) :
                Occurrences(gen.first, tile) = 1
           /\ Len(gen.first) = Cardinality(TilesOf(WorldTiles))
                                 - Cardinality(TilesOf(DataTiles))

\* two data tiles each way at zoom 2, with border tiles around them
C16_Witness ==
    /\ FirstPassComplete
    /\ TmsZoom = 2
    /\ Cardinality(TilesOf(DataTiles)) = 4
    /\ Len(gen.first) >= 12

SecondPassComplete == BordersReturned /\ gen.pass = 2 /\ gen.stopped

\* C17 as claimed: a second loop over the sequence GetWorldTmsBorders
\* returned, begun after the first loop consumed part or all of it, is
\* handed the same complete sequence of border tiles as a first loop.
C17_Restartable ==
    SecondPassComplete => gen.second = result.output

\* C17, amended: the sequence is a generator that can be consumed once: a
\* second loop is handed only the border tiles the first loop had not
\* reached (none after the first ran to its end), so the two loops together
\* are handed the complete sequence once.
C17_ConsumedOnce ==
    SecondPassComplete => gen.first \o gen.second = result.output

\* the first loop was left after three tiles and the second got the rest
C17_Witness ==
    /\ SecondPassComplete
    /\ Len(gen.first) = 3
    /\ Len(gen.second) >= 1

-----------------------------------------------------------------------------
(* the capability caches *)

\* the calls for a capability that ran the engine and got its output
Queries(capability) ==
    {i \in 1..Len(answers) :
        /\ answers[i].capability = capability
        /\ answers[i].queried
        /\ answers[i].value.kind = "return"}

\* the calls for a capability that returned
Returns(capability) ==
    {i \in 1..Len(answers) :
        answers[i].capability = capability /\ answers[i].value.kind = "return"}

\* C18: over any sequence of calls to supported_formats and
\* resampling_methods in one process, whatever the engine prints (also
\* output without the header line) and whatever cmd is passed, the engine
\* is queried at most once for each capability, and every call after the
\* first that returned returns the value the first returned.
C18_QueriedOnce ==
    \A capability \in {"formats", "methods"} :
        /\ Cardinality(Queries(capability)) <= 1
        /\ \A i, j \in Returns(capability) :
            answers[i].value = answers[j].value

-----------------------------------------------------------------------------
(* GetNativeResolution: termination *)

ScanningWithoutMaximum ==
    /\ scenario = "GetNativeResolution"
    /\ nr_pc = "scan"
    /\ ~callInput.maximum.given

\* the scan returns at zoom z
ReturnsAt(z) ==
    WithinError(ResPixelSize(DstRef(callInput.raster, callInput.transform), z),
                DstPixelSize(callInput.raster, callInput.transform))

\* the finest zoom whose pixel is still a whole number of sub-units, for
\* every spatial reference of SpatialRefs
FinestZoom == CHOOSE z \in 0..30 : Pow2(z) = ZoomZeroPixel \div 2

\* C20: GetNativeResolution called without a maximum terminates and returns
\* a zoom level for every raster and transform, also when the source pixel
\* size, or the pixel size carried into the destination projection, is
\* zero: from wherever the scan stands, a zoom lies ahead at which it
\* returns.  (With a pixel size of zero the test at a zoom is
\* res_pixel_size <= 0, and the pixel of every zoom is larger than zero.)
C20_ReturnsAZoom ==
    ScanningWithoutMaximum => \E z \in resolution..FinestZoom : ReturnsAt(z)

====
